---------------------------- MODULE Spec2Model ----------------------------
(***************************************************************************)
(* Document-Summariser: the extraction / summarisation pipeline of         *)
(* src/src/App.jsx (handleSummarise and the UI handlers around it),        *)
(* src/src/lib/gemini.js (summariseWithGemini), src/src/lib/ocrImage.js    *)
(* and src/unnamed/part_000 (extractPdfText).                              *)
(*                                                                         *)
(* Representation.  A JavaScript value is a record [t, v]: t is its type   *)
(* tag and v its payload.  A string that the code inspects character by    *)
(* character (a media type, an extracted text, a model reply) is a tuple   *)
(* of one-character strings; a string the code only passes on or tests     *)
(* for emptiness (an error message, a length directive, a length key) is   *)
(* a TLA+ string.  An object is the tuple of its <<key, value>> entries in *)
(* insertion order.                                                        *)
(***************************************************************************)
EXTENDS Integers, Sequences, FiniteSets, TLC

VARIABLES
    KEY,        \* gemini.js:3   import.meta.env.VITE_GEMINI_API_KEY
    file,       \* App.jsx:29    useState(null)
    length,     \* App.jsx:30    useState("medium")
    loading,    \* App.jsx:31    useState(false)
    error,      \* App.jsx:32    useState("")
    result,     \* App.jsx:33    useState(null)
    rawText,    \* App.jsx:34    useState("")
    runs,       \* the invocations of handleSummarise since the last trigger
    calls,      \* the invocations of summariseWithGemini (call 0: a direct one)
    started     \* how many runs of handleSummarise were started

vars == <<KEY, file, length, loading, error, result, rawText, runs, calls, started>>

-----------------------------------------------------------------------------
(* Bounds of the model.                                                    *)

\* Runs of handleSummarise one behaviour may start.
MaxRuns == 2
\* Longest model reply enumerated character by character.
MaxRawLen == 4
\* Longest short text handed to a direct invocation, character by character.
MaxTextLen == 3

-----------------------------------------------------------------------------
(* JavaScript values.                                                      *)

Undefined == [t |-> "undefined", v |-> <<>>]
Null == [t |-> "null", v |-> <<>>]
Str(s) == [t |-> "string", v |-> s]
Num(n) == [t |-> "number", v |-> n]
Bool(b) == [t |-> "boolean", v |-> b]
Arr(a) == [t |-> "array", v |-> a]
Obj(entries) == [t |-> "object", v |-> entries]

IsNullish(x) == x.t \in {"undefined", "null"}

\* The keys of an object, and whether it has an own property k.
Keys(o) == {o.v[i][1] : i \in 1..Len(o.v)}
HasOwn(o, k) == o.t = "object" /\ k \in Keys(o)

\* o[k] for an own property (the last entry written under k wins).
OwnValue(o, k) ==
    LET idx == {i \in 1..Len(o.v) : o.v[i][1] = k}
    IN  o.v[CHOOSE i \in idx : \A j \in idx : j <= i][2]

\* x?.k and x?.[n] on a parsed JSON value: undefined through a nullish x,
\* the own property of an object, the n-th element of an array, and
\* undefined where there is none.
OptGet(x, k) ==
    IF IsNullish(x) THEN Undefined
    ELSE IF HasOwn(x, k) THEN OwnValue(x, k)
    ELSE Undefined

OptIndex0(x) ==
    IF IsNullish(x) THEN Undefined
    ELSE IF x.t = "array" /\ Len(x.v) >= 1 THEN x.v[1]
    ELSE IF x.t = "string" /\ Len(x.v) >= 1 THEN Str(<<x.v[1]>>)
    ELSE Undefined

\* a ?? b
Coalesce(a, b) == IF IsNullish(a) THEN b ELSE a

-----------------------------------------------------------------------------
(* Strings as tuples of characters.                                        *)

IsWhiteSpace(c) == c \in {" ", "\n", "\t", "\r"}

RECURSIVE TrimStart(_)
TrimStart(s) ==
    IF s # <<>> /\ IsWhiteSpace(Head(s)) THEN TrimStart(Tail(s)) ELSE s

RECURSIVE TrimEnd(_)
TrimEnd(s) ==
    IF s # <<>> /\ IsWhiteSpace(s[Len(s)])
    THEN TrimEnd(SubSeq(s, 1, Len(s) - 1))
    ELSE s

\* String.prototype.trim
Trim(s) == TrimEnd(TrimStart(s))

\* String.prototype.startsWith
StartsWith(s, p) == Len(s) >= Len(p) /\ SubSeq(s, 1, Len(p)) = p

\* A variant of Slice0: the end index is taken as the last index kept
\* (one character more than slice keeps).
Slice0Inclusive(s, n) == SubSeq(s, 1, IF Len(s) < n + 1 THEN Len(s) ELSE n + 1)

\* String.prototype.slice(0, n) for n >= 0
Slice0(s, n) == SubSeq(s, 1, IF Len(s) < n THEN Len(s) ELSE n)

\* Array.prototype.join
RECURSIVE Join(_, _)
Join(parts, sep) ==
    IF parts = <<>> THEN <<>>
    ELSE IF Len(parts) = 1 THEN parts[1]
    ELSE parts[1] \o sep \o Join(Tail(parts), sep)

\* A text kept in the record of an invocation is kept run by run: the
\* tuple of its <<character, count>> runs of equal characters.  Pack and
\* Unpack go between a string and its runs; nothing is lost either way.
RunStarts(s) == {i \in 1..Len(s) : i = 1 \/ s[i] # s[i - 1]}
Pack(s) ==
    LET st == RunStarts(s)
        n == Cardinality(st)
        start(k) == CHOOSE i \in st : Cardinality({j \in st : j < i}) = k - 1
        stop(k) == IF k = n THEN Len(s) ELSE start(k + 1) - 1
    IN  [k \in 1..n |-> <<s[start(k)], stop(k) - start(k) + 1>>]

RECURSIVE PackedLen(_)
PackedLen(p) == IF p = <<>> THEN 0 ELSE p[1][2] + PackedLen(Tail(p))

RECURSIVE Unpack(_)
Unpack(p) ==
    IF p = <<>> THEN <<>> ELSE [i \in 1..p[1][2] |-> p[1][1]] \o Unpack(Tail(p))

-----------------------------------------------------------------------------
(* Submitted files.  A file carries its declared media type and what the   *)
(* three engines make of its bytes: pages (the text items of each page,    *)
(* as pdfjs reports them), ocr (Tesseract's data.text), bytes (what        *)
(* File.text() decodes), and thrown (the value an engine that cannot       *)
(* process the bytes throws: e.message, "" when it has none).              *)

PdfType == <<"a", "p", "p", "l", "i", "c", "a", "t", "i", "o", "n", "/", "p", "d", "f">>
ImagePrefix == <<"i", "m", "a", "g", "e", "/">>

File(name, type, readable, thrown, pages, ocr, bytes) ==
    [name |-> name, type |-> type, readable |-> readable, thrown |-> thrown,
     pages |-> pages, ocr |-> ocr, bytes |-> bytes]

Files == {
    File("report.pdf", Str(PdfType), TRUE, "",
         << <<<<"a">>, <<"b">>>>, <<<<"c">>>> >>, Undefined, <<"%", "P">>),
    File("scan.pdf", Str(PdfType), TRUE, "",
         << <<>>, <<>> >>, Undefined, <<"%", "P">>),
    File("broken.pdf", Str(PdfType), FALSE, "Invalid PDF structure.",
         <<>>, Undefined, <<"x">>),
    File("photo.png", Str(<<"i", "m", "a", "g", "e", "/", "p", "n", "g">>), TRUE, "",
         <<>>, Str(<<"h", "i">>), <<"x">>),
    File("blank.png", Str(<<"i", "m", "a", "g", "e", "/", "p", "n", "g">>), TRUE, "",
         <<>>, Undefined, <<"x">>),
    File("bad.img", Str(ImagePrefix), FALSE, "",
         <<>>, Undefined, <<"x">>),
    File("notes.txt", Str(<<"t", "e", "x", "t", "/", "p", "l", "a", "i", "n">>), TRUE, "",
         <<>>, Undefined, <<"a", "b">>),
    File("spaces", Str(<<>>), TRUE, "",
         <<>>, Undefined, <<" ", "\n">>),
    File("untyped", Undefined, TRUE, "",
         <<>>, Undefined, <<"a">>),
    File("odd", Str(<<"x", "-", "i", "m", "a", "g", "e", "/">>), TRUE, "",
         <<>>, Undefined, <<>>)
}

\* The outcome of an asynchronous function: a value returned or thrown.
Return(v) == [kind |-> "return", v |-> v, msg |-> ""]
Throw(msg) == [kind |-> "throw", v |-> Undefined, msg |-> msg]

\* part_000:6-17 extractPdfText: the items of a page joined by a space,
\* the pages joined by a blank line, in page order.
PageText(items) == Join(items, <<" ">>)
extractPdfText(f) ==
    IF ~f.readable THEN Throw(f.thrown)
    ELSE Return(Str(Join([p \in 1..Len(f.pages) |-> PageText(f.pages[p])],
                         <<"\n", "\n">>)))

\* ocrImage.js:3-6: data.text || ""
ocrImage(f) ==
    IF ~f.readable THEN Throw(f.thrown)
    ELSE Return(IF f.ocr.t = "string" /\ f.ocr.v # <<>> THEN f.ocr ELSE Str(<<>>))

\* File.text()
fileText(f) == IF ~f.readable THEN Throw(f.thrown) ELSE Return(Str(f.bytes))

\* A variant of IsImage: "image/" anywhere in the type (includes for
\* startsWith).
IsImageIncludes(f) ==
    /\ f.type.t = "string"
    /\ \E k \in 0..Len(f.type.v) :
          /\ k + Len(ImagePrefix) <= Len(f.type.v)
          /\ SubSeq(f.type.v, k + 1, k + Len(ImagePrefix)) = ImagePrefix

\* App.jsx:19 and App.jsx:22: the two tests of the declared type.  The
\* second is type?.startsWith("image/"): undefined for an undefined type.
IsPdf(f) == f.type = Str(PdfType)
IsImage(f) ==
    IF IsNullish(f.type) THEN FALSE
    ELSE f.type.t = "string" /\ StartsWith(f.type.v, ImagePrefix)

\* App.jsx:18-26 extractTextFromFile: the strategies it invokes, in order.
Strategies(f) ==
    IF IsPdf(f) THEN <<"pdf">>
    ELSE IF IsImage(f) THEN <<"ocr">>
    ELSE <<"text">>

RunStrategy(s, f) ==
    CASE s = "pdf" -> extractPdfText(f)
      [] s = "ocr" -> ocrImage(f)
      [] s = "text" -> fileText(f)

\* The value extractTextFromFile settles with: that of the strategy it
\* returns from.
extractTextFromFile(f) == RunStrategy(Strategies(f)[1], f)

-----------------------------------------------------------------------------
(* gemini.js: the prompt.                                                  *)

\* gemini.js:29 text.slice(0, 180000)
MAX == 180000

\* A variant of KeyMissing: the key is compared with undefined only.
KeyMissingUndefinedOnly(k) == IsNullish(k)

\* gemini.js:5-7 mustKey: !KEY holds of undefined and of "".
KeyMissing(k) == IsNullish(k) \/ (k.t = "string" /\ k.v = <<>>)
MissingKeyMessage == "Missing VITE_GEMINI_API_KEY in .env.local"

\* gemini.js:12-16: the own properties of the object literal.  The sign
\* before each range is U+2248 in the source.
OwnTargets ==
    [short |-> "~80-120 words", medium |-> "~150-250 words", long |-> "~300-450 words"]

\* What the literal inherits from Object.prototype, as the template literal
\* of gemini.js:23 prints it.
InheritedTargets ==
    [constructor |-> "function Object() { [native code] }",
     toString |-> "function toString() { [native code] }",
     valueOf |-> "function valueOf() { [native code] }",
     hasOwnProperty |-> "function hasOwnProperty() { [native code] }",
     __proto__ |-> "[object Object]"]

\* gemini.js:9: the default of the parameter applies to undefined alone.
LengthParam(len) == IF len = "undefined" THEN "medium" ELSE len

\* gemini.js:11-16: {...}[length] || "~150-250 words".  A property read
\* finds own properties first and then those of the prototype; every value
\* found is truthy.
TargetFor(len) ==
    LET k == LengthParam(len)
    IN  IF k \in DOMAIN OwnTargets THEN OwnTargets[k]
        ELSE IF k \in DOMAIN InheritedTargets THEN InheritedTargets[k]
        ELSE "~150-250 words"

\* gemini.js:18-30: the parts of the prompt that vary.
Prompt(text, len) == [target |-> TargetFor(len), text |-> Pack(Slice0(text, MAX))]
NoPrompt == [target |-> "", text |-> <<>>]

\* gemini.js:40 res.ok, and the message thrown at a status that is not.
IsOk(status) == 200 <= status /\ status <= 299
GeminiError(status) == "Gemini error " \o ToString(status)

-----------------------------------------------------------------------------
(* gemini.js:42-50: decoding the reply.                                    *)

\* gemini.js:45 raw.match(/\{[\s\S]*\}/): the leftmost "{" that has a "}"
\* after it, up to the last "}" (the star is greedy).  <<>> stands for
\* null: no match is ever empty.
RegexMatch(raw) ==
    LET opens == {i \in 1..Len(raw) : raw[i] = "{"}
        closes == {j \in 1..Len(raw) : raw[j] = "}"}
        starts == {i \in opens : \E j \in closes : j > i}
    IN  IF starts = {} THEN <<>>
        ELSE LET i == CHOOSE a \in starts : \A b \in starts : a <= b
                 j == CHOOSE a \in closes : \A b \in closes : b <= a
             IN  SubSeq(raw, i, j)

\* JSON.parse, by recursive descent over the grammar of ECMA-404: objects,
\* arrays, strings with the escapes \" \\ \/ \n \r \t, integers and the
\* three literals.  A parse step yields [ok, v, i]: whether it succeeded,
\* the value, and the index after it.  (Fractions, exponents and the
\* escapes \b \f \u use characters no reply of the model contains.)
Parsed(v, i) == [ok |-> TRUE, v |-> v, i |-> i]
SyntaxError == [ok |-> FALSE, v |-> Undefined, i |-> 0]

Digits == {"0", "1", "2", "3", "4", "5", "6", "7", "8", "9"}
DigitValue(c) ==
    CASE c = "0" -> 0 [] c = "1" -> 1 [] c = "2" -> 2 [] c = "3" -> 3
      [] c = "4" -> 4 [] c = "5" -> 5 [] c = "6" -> 6 [] c = "7" -> 7
      [] c = "8" -> 8 [] c = "9" -> 9

At(s, i) == IF 1 <= i /\ i <= Len(s) THEN s[i] ELSE "EOF"

RECURSIVE SkipWs(_, _)
SkipWs(s, i) ==
    IF At(s, i) \in {" ", "\n", "\r", "\t"} THEN SkipWs(s, i + 1) ELSE i

Unescape(c) ==
    CASE c = "n" -> "\n" [] c = "r" -> "\r" [] c = "t" -> "\t" [] OTHER -> c

\* The characters of a string literal from index i on, acc those read.
RECURSIVE ScanString(_, _, _)
ScanString(s, i, acc) ==
    LET c == At(s, i)
    IN  IF c = "EOF" \/ c \in {"\n", "\r", "\t"} THEN SyntaxError
        ELSE IF c = "\"" THEN Parsed(Str(acc), i + 1)
        ELSE IF c = "\\"
             THEN IF At(s, i + 1) \in {"\"", "\\", "/", "n", "r", "t"}
                  THEN ScanString(s, i + 2, Append(acc, Unescape(At(s, i + 1))))
                  ELSE SyntaxError
        ELSE ScanString(s, i + 1, Append(acc, c))

RECURSIVE ScanDigits(_, _, _)
ScanDigits(s, i, n) ==
    IF At(s, i) \in Digits
    THEN ScanDigits(s, i + 1, 10 * n + DigitValue(At(s, i)))
    ELSE Parsed(Num(n), i)

\* -?(0|[1-9][0-9]*)
ParseNumber(s, i) ==
    LET neg == At(s, i) = "-"
        j == IF neg THEN i + 1 ELSE i
        r == IF At(s, j) = "0" THEN Parsed(Num(0), j + 1)
             ELSE IF At(s, j) \in Digits THEN ScanDigits(s, j, 0)
             ELSE SyntaxError
    IN  IF r.ok /\ neg THEN Parsed(Num(0 - r.v.v), r.i) ELSE r

ParseLiteral(s, i, word, v) ==
    IF i + Len(word) - 1 <= Len(s) /\ SubSeq(s, i, i + Len(word) - 1) = word
    THEN Parsed(v, i + Len(word))
    ELSE SyntaxError

\* Defining the property key of an object: a repeated key keeps its place
\* and takes the later value.
Put(entries, key, val) ==
    IF \E n \in 1..Len(entries) : entries[n][1] = key
    THEN [n \in 1..Len(entries) |->
            IF entries[n][1] = key THEN <<key, val>> ELSE entries[n]]
    ELSE Append(entries, <<key, val>>)

RECURSIVE ParseValue(_, _)
RECURSIVE ParseElements(_, _, _)
RECURSIVE ParseMembers(_, _, _)

ParseValue(s, i) ==
    LET c == At(s, i)
    IN  CASE c = "{" ->
               IF At(s, SkipWs(s, i + 1)) = "}"
               THEN Parsed(Obj(<<>>), SkipWs(s, i + 1) + 1)
               ELSE ParseMembers(s, SkipWs(s, i + 1), <<>>)
          [] c = "[" ->
               IF At(s, SkipWs(s, i + 1)) = "]"
               THEN Parsed(Arr(<<>>), SkipWs(s, i + 1) + 1)
               ELSE ParseElements(s, SkipWs(s, i + 1), <<>>)
          [] c = "\"" -> ScanString(s, i + 1, <<>>)
          [] c = "-" \/ c \in Digits -> ParseNumber(s, i)
          [] c = "t" -> ParseLiteral(s, i, <<"t", "r", "u", "e">>, Bool(TRUE))
          [] c = "f" -> ParseLiteral(s, i, <<"f", "a", "l", "s", "e">>, Bool(FALSE))
          [] c = "n" -> ParseLiteral(s, i, <<"n", "u", "l", "l">>, Null)
          [] OTHER -> SyntaxError

\* The elements of an array from index i on, acc those read.
ParseElements(s, i, acc) ==
    LET r == ParseValue(s, i)
        k == SkipWs(s, r.i)
    IN  IF ~r.ok THEN SyntaxError
        ELSE IF At(s, k) = "," THEN ParseElements(s, SkipWs(s, k + 1), Append(acc, r.v))
        ELSE IF At(s, k) = "]" THEN Parsed(Arr(Append(acc, r.v)), k + 1)
        ELSE SyntaxError

\* The members of an object from index i on, acc those read.
ParseMembers(s, i, acc) ==
    LET key == IF At(s, i) = "\"" THEN ScanString(s, i + 1, <<>>) ELSE SyntaxError
        colon == SkipWs(s, key.i)
        val == IF key.ok /\ At(s, colon) = ":"
               THEN ParseValue(s, SkipWs(s, colon + 1))
               ELSE SyntaxError
        k == SkipWs(s, val.i)
    IN  IF ~val.ok THEN SyntaxError
        ELSE IF At(s, k) = ","
             THEN ParseMembers(s, SkipWs(s, k + 1), Put(acc, key.v.v, val.v))
        ELSE IF At(s, k) = "}" THEN Parsed(Obj(Put(acc, key.v.v, val.v)), k + 1)
        ELSE SyntaxError

\* JSON.parse(s): one value, white space around it, and nothing else.
JSONParse(s) ==
    LET r == ParseValue(s, SkipWs(s, 1))
    IN  IF r.ok /\ SkipWs(s, r.i) = Len(s) + 1 THEN r ELSE SyntaxError

K_summary == <<"s", "u", "m", "m", "a", "r", "y">>
K_key_points == <<"k", "e", "y", "_", "p", "o", "i", "n", "t", "s">>
K_candidates == <<"c", "a", "n", "d", "i", "d", "a", "t", "e", "s">>
K_content == <<"c", "o", "n", "t", "e", "n", "t">>
K_parts == <<"p", "a", "r", "t", "s">>
K_text == <<"t", "e", "x", "t">>

\* gemini.js:43 json?.candidates?.[0]?.content?.parts?.[0]?.text
EnvelopeText(json) ==
    OptGet(OptIndex0(OptGet(OptGet(OptIndex0(OptGet(json, K_candidates)),
                                   K_content), K_parts)), K_text)

\* gemini.js:43 ... ?? "{}"
RawDefault == Str(<<"{", "}">>)
RawOf(json) == Coalesce(EnvelopeText(json), RawDefault)

\* gemini.js:47,49 { summary: raw, key_points: [] }
Fallback(raw) == Obj(<< <<K_summary, raw>>, <<K_key_points, Arr(<<>>)>> >>)

\* gemini.js:47, the body of the try: match ? JSON.parse(match[0]) : {...}
DecodeTry(raw) ==
    LET match == RegexMatch(raw.v)
    IN  IF match # <<>>
        THEN IF JSONParse(match).ok THEN Return(JSONParse(match).v)
             ELSE Throw("SyntaxError")
        ELSE Return(Fallback(raw))

\* A variant of DecodeCatch: no catch clause, the parse error propagates.
DecodeCatchRethrow(raw, attempt) == attempt

\* gemini.js:48-50, the catch clause around it.
DecodeCatch(raw, attempt) ==
    IF attempt.kind = "throw" THEN Return(Fallback(raw)) ELSE attempt

\* gemini.js:45-50.  raw.match is called outside the try: a raw that is no
\* string has no match method.
Decode(raw) ==
    IF raw.t # "string" THEN Throw("raw.match is not a function")
    ELSE DecodeCatch(raw, DecodeTry(raw))

-----------------------------------------------------------------------------
(* gemini.js:9-51 summariseWithGemini, one record per invocation.  pc is   *)
(* where the invocation stands: "called" (not yet entered), "fetching"     *)
(* (awaiting fetch), "reading" (awaiting res.json()), "settled".           *)

Pending == [kind |-> "pending", v |-> Undefined, msg |-> ""]
NoBody == [readable |-> FALSE, json |-> Undefined]
Body(json) == [readable |-> TRUE, json |-> json]

NewCall(text, len) ==
    [text |-> Pack(text), length |-> len, pc |-> "called", prompt |-> NoPrompt,
     requests |-> 0, status |-> 0, body |-> NoBody, outcome |-> Pending]

Settle(c, outcome) == [c EXCEPT !.pc = "settled", !.outcome = outcome]

\* gemini.js:10-39: mustKey, the prompt, and the one call of fetch.
Enter(c, key) ==
    IF KeyMissing(key) THEN Settle(c, Throw(MissingKeyMessage))
    ELSE [c EXCEPT !.pc = "fetching",
                   !.prompt = Prompt(Unpack(c.text), c.length),
                   !.requests = @ + 1]

\* gemini.js:32 fetch rejects (no response at all).
OnNetworkError(c) == Settle(c, Throw("Failed to fetch"))

\* A variant of OnResponse: a status that is not ok is answered by sending
\* the request again.
OnResponseRetry(c, status, body) ==
    IF ~IsOk(status)
    THEN [c EXCEPT !.status = status, !.requests = @ + 1]
    ELSE [c EXCEPT !.pc = "reading", !.status = status, !.body = body]

\* gemini.js:40-42: the response is in; its body is still to be read.
OnResponse(c, status, body) ==
    IF ~IsOk(status)
    THEN Settle([c EXCEPT !.status = status], Throw(GeminiError(status)))
    ELSE [c EXCEPT !.pc = "reading", !.status = status, !.body = body]

\* gemini.js:42-50: res.json() settles; the reply is decoded.
OnBody(c) ==
    IF ~c.body.readable THEN Settle(c, Throw("Unexpected end of JSON input"))
    ELSE Settle(c, Decode(RawOf(c.body.json)))

-----------------------------------------------------------------------------
(* App.jsx: the component's state and handleSummarise, one record per run. *)
(* pc is where the run stands: "extracting" (awaiting extractTextFromFile, *)
(* App.jsx:84), "summarising" (awaiting summariseWithGemini, App.jsx:92),  *)
(* "done".  The code between two awaits runs without interruption.         *)

\* App.jsx:29 useState(null)
NullFile == File("", Undefined, FALSE, "", <<>>, Undefined, <<>>)

\* App.jsx:88
EmptyMessage ==
    "Could not extract any text from the document. It might be empty or unreadable."

\* App.jsx:96 e.message || "Something went wrong."
ErrorText(msg) == IF msg # "" THEN msg ELSE "Something went wrong."

\* A variant of IsBlank: the text is tested without being trimmed.
IsBlankUntrimmed(text) == text = <<>>

\* App.jsx:87 !text.trim()
IsBlank(text) == Trim(text) = <<>>

\* A variant of StartError: a new run leaves the old error on screen.
StartErrorKept == error

\* App.jsx:81 setError("") and App.jsx:82 setResult(null)
StartError == ""
StartResult == Null

\* A variant of CanTrigger: the button is disabled by !file alone.
CanTriggerWhileLoading == file # NullFile

\* App.jsx:365 disabled={!file || loading}, and App.jsx:78
CanTrigger == file # NullFile /\ ~loading

\* The part of the component's state a run writes.
View == [loading |-> loading, error |-> error, result |-> result, rawText |-> rawText]

NoEnd == [error |-> "", result |-> Null]

\* App.jsx:84: extractTextFromFile(file) is called with the file of the
\* render the click came from, and runs up to its first await.
NewRun(f, len) ==
    [file |-> f, length |-> len, pc |-> "extracting", strategies |-> Strategies(f),
     extraction |-> Pending, end |-> NoEnd]

\* App.jsx:97-99 finally: the run is over; end keeps what it left on screen.
Finish(run, st) ==
    LET last == [st EXCEPT !.loading = FALSE]
    IN  [run |-> [run EXCEPT !.pc = "done",
                             !.end = [error |-> last.error, result |-> last.result]],
         call |-> <<>>, st |-> last]

\* App.jsx:94-96 catch
Caught(run, msg, st) == Finish(run, [st EXCEPT !.error = ErrorText(msg)])

\* A variant of ReachesSummarise: a failed extraction is not caught as the
\* end of the run, which goes on with no text.
ReachesSummariseAfterThrow(ext) == ext.kind = "throw" \/ ~IsBlank(ext.v.v)

\* App.jsx:84-92: whether the run goes on to call summariseWithGemini.
ReachesSummarise(ext) == ext.kind = "return" /\ ~IsBlank(ext.v.v)

\* App.jsx:84-99, from the await of the extraction to the next await or to
\* the end: the run as it is then, the call it made (if any), the state.
AfterExtraction(run, ext, key, st) ==
    LET r1 == [run EXCEPT !.extraction = ext]
        st1 == [st EXCEPT !.rawText = ext.v.v]
        c == Enter(NewCall(ext.v.v, run.length), key)
    IN  IF ReachesSummarise(ext)
        THEN IF c.pc = "settled"
             THEN [Caught(r1, c.outcome.msg, st1) EXCEPT !.call = <<c>>]
             ELSE [run |-> [r1 EXCEPT !.pc = "summarising"], call |-> <<c>>, st |-> st1]
        ELSE IF ext.kind = "throw" THEN Caught(r1, ext.msg, st)
        ELSE Finish(r1, [st1 EXCEPT !.error = EmptyMessage])

\* App.jsx:92-99, from the await of summariseWithGemini to the end.
AfterSummarise(run, outcome, st) ==
    IF outcome.kind = "return"
    THEN Finish(run, [st EXCEPT !.result = outcome.v])
    ELSE Caught(run, outcome.msg, st)

-----------------------------------------------------------------------------
(* The inputs of the model.                                                *)

\* gemini.js:3: the variable unset, set to nothing, set.
ApiKeys == {Undefined, Str(<<>>), Str(<<"k">>)}

\* App.jsx:353-355: the options of the select.
Lengths == {"short", "medium", "long"}

\* The length argument of a direct invocation: "undefined" is the omitted
\* argument, the others are strings.
DirectLengths ==
    Lengths \cup {"undefined", "verbose", "", "Short", "constructor", "toString", "__proto__"}

DirectTexts == {<<"a", "b">>, <<" ", "\n">>, <<>>}

Statuses == {200, 404, 500}

\* The provider's envelope around a reply text.
Envelope(text) ==
    Obj(<< <<K_candidates, Arr(<< Obj(<< <<K_content,
        Obj(<< <<K_parts, Arr(<< Obj(<< <<K_text, text>> >>) >>)>> >>)>> >>) >>)>> >>)

R_full == <<"{", "\"", "s", "u", "m", "m", "a", "r", "y", "\"", ":", "\"", "A", "\"", ",", "\"", "k", "e", "y", "_", "p", "o", "i", "n", "t", "s", "\"", ":", "[", "\"", "x", "\"", ",", "\"", "y", "\"", "]", "}">>
R_prose == <<"S", "u", "r", "e", "!", " ", "H", "e", "r", "e", " ", "i", "s", " ", "t", "h", "e", " ", "J", "S", "O", "N", ":", " ", "{", "\"", "s", "u", "m", "m", "a", "r", "y", "\"", ":", "\"", "B", "\"", ",", "\"", "k", "e", "y", "_", "p", "o", "i", "n", "t", "s", "\"", ":", "[", "]", "}">>
R_plain == <<"n", "o", "t", " ", "j", "s", "o", "n", " ", "a", "t", " ", "a", "l", "l">>
R_malformed == <<"{", "\"", "s", "u", "m", "m", "a", "r", "y", "\"", ":", " ", "i", "n", "v", "a", "l", "i", "d", "}">>
R_no_points == <<"{", "\"", "s", "u", "m", "m", "a", "r", "y", "\"", ":", "\"", "C", "\"", "}">>

NamedReplies == {R_full, R_prose, R_plain, R_malformed, R_no_points, <<"{", "}">>, <<>>}

\* Envelopes with no text payload: no candidates, no candidate, no content,
\* no parts, no part, no text, a null text, and a null body.
NoTextEnvelopes == {
    Obj(<<>>),
    Null,
    Obj(<< <<K_candidates, Arr(<<>>)>> >>),
    Obj(<< <<K_candidates, Arr(<< Obj(<<>>) >>)>> >>),
    Obj(<< <<K_candidates, Arr(<< Obj(<< <<K_content, Obj(<<>>)>> >>) >>)>> >>),
    Obj(<< <<K_candidates, Arr(<< Obj(<< <<K_content,
        Obj(<< <<K_parts, Arr(<<>>)>> >>)>> >>) >>)>> >>),
    Obj(<< <<K_candidates, Arr(<< Obj(<< <<K_content,
        Obj(<< <<K_parts, Arr(<< Obj(<<>>) >>)>> >>)>> >>) >>)>> >>),
    Envelope(Null)
}

\* The bodies a response of the pipeline's runs may carry.
Bodies ==
    {NoBody, Body(Obj(<<>>)), Body(Envelope(Str(R_full))),
     Body(Envelope(Str(R_plain))), Body(Envelope(Str(R_no_points)))}

\* Every reply of at most MaxRawLen characters over RawAlphabet.
RawAlphabet == {"{", "}", "\"", "a", ":", " "}
ShortReplies == UNION {[1..n -> RawAlphabet] : n \in 0..MaxRawLen}

DecodeBodies ==
    {NoBody} \cup {Body(e) : e \in NoTextEnvelopes}
    \cup {Body(Envelope(Str(r))) : r \in NamedReplies \cup ShortReplies}

-----------------------------------------------------------------------------
(* The actions.                                                            *)

WriteView(st) ==
    /\ loading' = st.loading
    /\ error' = st.error
    /\ result' = st.result
    /\ rawText' = st.rawText

\* App.jsx:102-107 onDrop with a file in the drop.
onDrop(f) ==
    /\ file' = f
    /\ UNCHANGED <<KEY, length, loading, error, result, rawText, runs, calls, started>>

\* App.jsx:109-112 onFilePick; App.jsx:292: the input is disabled while a
\* file is selected.
onFilePick(f) ==
    /\ file = NullFile
    /\ file' = f
    /\ UNCHANGED <<KEY, length, loading, error, result, rawText, runs, calls, started>>

\* App.jsx:114-118 handleCancel; App.jsx:306: the button exists while a
\* file is selected.
handleCancel ==
    /\ file # NullFile
    /\ file' = NullFile
    /\ result' = Null
    /\ error' = ""
    /\ UNCHANGED <<KEY, length, loading, rawText, runs, calls, started>>

\* App.jsx:350 setLength(e.target.value)
setLength(len) ==
    /\ length # len
    /\ length' = len
    /\ UNCHANGED <<KEY, file, loading, error, result, rawText, runs, calls, started>>

\* App.jsx:77-84 handleSummarise up to its first await.  The runs that are
\* over are dropped from the record here.
handleSummarise ==
    /\ CanTrigger
    /\ started < MaxRuns
    /\ LET id == started + 1
           live == {r \in DOMAIN runs : runs[r].pc # "done"}
       IN  /\ runs' = [r \in live \cup {id} |->
                         IF r = id THEN NewRun(file, length) ELSE runs[r]]
           /\ calls' = [c \in DOMAIN calls \cap live |-> calls[c]]
           /\ started' = id
    /\ loading' = TRUE
    /\ error' = StartError
    /\ result' = StartResult
    /\ UNCHANGED <<KEY, file, length, rawText>>

\* App.jsx:84: the extraction of run r settles.
ExtractDone(r) ==
    /\ r \in DOMAIN runs
    /\ runs[r].pc = "extracting"
    /\ LET eff == AfterExtraction(runs[r], extractTextFromFile(runs[r].file), KEY, View)
       IN  /\ runs' = [runs EXCEPT ![r] = eff.run]
           /\ calls' = IF eff.call = <<>> THEN calls
                       ELSE [c \in DOMAIN calls \cup {r} |->
                               IF c = r THEN eff.call[1] ELSE calls[c]]
           /\ WriteView(eff.st)
    /\ UNCHANGED <<KEY, file, length, started>>

\* Call c moves on to next; if that settles it, the run awaiting it (the
\* run of the same number, if any) resumes in the same step.
Advance(c, next) ==
    /\ calls' = [calls EXCEPT ![c] = next]
    /\ IF next.pc = "settled" /\ c \in DOMAIN runs
       THEN LET eff == AfterSummarise(runs[c], next.outcome, View)
            IN  /\ runs' = [runs EXCEPT ![c] = eff.run]
                /\ WriteView(eff.st)
       ELSE UNCHANGED <<runs, loading, error, result, rawText>>
    /\ UNCHANGED <<KEY, file, length, started>>

\* gemini.js:9: a direct invocation is entered.
Invoke(c) ==
    /\ c \in DOMAIN calls
    /\ calls[c].pc = "called"
    /\ Advance(c, Enter(calls[c], KEY))

\* gemini.js:32: fetch rejects.
FetchFailed(c) ==
    /\ c \in DOMAIN calls
    /\ calls[c].pc = "fetching"
    /\ Advance(c, OnNetworkError(calls[c]))

\* gemini.js:32-42: fetch resolves with a response.
FetchDone(c, status, body) ==
    /\ c \in DOMAIN calls
    /\ calls[c].pc = "fetching"
    /\ Advance(c, OnResponse(calls[c], status, body))

\* gemini.js:42-50: res.json() settles.
JsonDone(c) ==
    /\ c \in DOMAIN calls
    /\ calls[c].pc = "reading"
    /\ Advance(c, OnBody(calls[c]))

-----------------------------------------------------------------------------
(* Spec: the component, from its first render.                             *)

Idle ==
    /\ file = NullFile
    /\ length = "medium"
    /\ loading = FALSE
    /\ error = ""
    /\ result = Null
    /\ rawText = <<>>
    /\ runs = <<>>
    /\ started = 0

Init ==
    /\ KEY \in ApiKeys
    /\ Idle
    /\ calls = <<>>

Next ==
    \/ \E f \in Files : onDrop(f)
    \/ \E f \in Files : onFilePick(f)
    \/ handleCancel
    \/ \E len \in Lengths : setLength(len)
    \/ handleSummarise
    \/ \E r \in 1..MaxRuns : ExtractDone(r)
    \/ \E r \in 1..MaxRuns : FetchFailed(r)
    \/ \E r \in 1..MaxRuns, status \in Statuses, body \in Bodies : FetchDone(r, status, body)
    \/ \E r \in 1..MaxRuns : JsonDone(r)

Spec == Init /\ [][Next]_vars

(* SpecGemini: one direct invocation of summariseWithGemini.               *)

InitGemini ==
    /\ KEY \in ApiKeys
    /\ Idle
    /\ \E text \in DirectTexts, len \in DirectLengths :
          calls = [c \in {0} |-> NewCall(text, len)]

NextGemini ==
    \/ Invoke(0)
    \/ FetchFailed(0)
    \/ \E status \in Statuses, body \in Bodies : FetchDone(0, status, body)
    \/ JsonDone(0)

SpecGemini == InitGemini /\ [][NextGemini]_vars

(* SpecDecode: one invocation whose success-status response is in, for     *)
(* every body of DecodeBodies.                                             *)

InitDecode ==
    /\ KEY = Str(<<"k">>)
    /\ Idle
    /\ \E body \in DecodeBodies :
          calls = [c \in {0} |->
                     OnResponse(Enter(NewCall(<<"a", "b">>, "medium"), KEY), 200, body)]

NextDecode == JsonDone(0)

SpecDecode == InitDecode /\ [][NextDecode]_vars

(* SpecPrompt: one direct invocation of summariseWithGemini on a text      *)
(* around the bound of gemini.js:29, or on a short one.                    *)

\* A text of n characters (n > 3) that begins and ends with characters
\* of its own: "x", then "a" n - 3 times, then "b" and "c".
LongText(n) == <<"x">> \o [i \in 1..(n - 3) |-> "a"] \o <<"b", "c">>

LongTexts == {LongText(MAX - 1), LongText(MAX), LongText(MAX + 1), LongText(MAX + 2)}
ShortTexts == UNION {[1..n -> {"a", " "}] : n \in 0..MaxTextLen}

\* The long texts come with the key set and the default length; the short
\* ones with every key and every length of the select.
InitPrompt ==
    /\ Idle
    /\ \/ /\ KEY = Str(<<"k">>)
          /\ \E text \in LongTexts : calls = [c \in {0} |-> NewCall(text, "medium")]
       \/ /\ KEY \in ApiKeys
          /\ \E text \in ShortTexts, len \in Lengths :
                calls = [c \in {0} |-> NewCall(text, len)]

NextPrompt == Invoke(0)

SpecPrompt == InitPrompt /\ [][NextPrompt]_vars

-----------------------------------------------------------------------------
(* The claims.                                                             *)

OnlyWhiteSpace(text) == \A i \in 1..Len(text) : IsWhiteSpace(text[i])
Extracted(r) == runs[r].extraction.kind = "return"
ExtractedText(r) == runs[r].extraction.v.v

\* C1: a run of handleSummarise whose extracted text is empty or only white
\* space never invokes summariseWithGemini, leaves result null, and ends
\* with error set to the "Could not extract any text" message.
C1_EmptyTextShortCircuit ==
    \A r \in DOMAIN runs :
        (Extracted(r) /\ OnlyWhiteSpace(ExtractedText(r))) =>
            /\ r \notin DOMAIN calls
            /\ runs[r].pc = "done"
            /\ runs[r].end = [error |-> EmptyMessage, result |-> Null]

\* C1 witness: a run that extracted a non-empty text of white space only
\* (the pages of scan.pdf, the bytes of spaces) and is over.
C1_Witness ==
    \E r \in DOMAIN runs :
        /\ Extracted(r)
        /\ ExtractedText(r) # <<>>
        /\ OnlyWhiteSpace(ExtractedText(r))
        /\ runs[r].pc = "done"

\* C2: in every reachable state of the component the result and the error
\* are never both on screen: result is null or error is empty.
C2_ResultXorError == ~(result # Null /\ error # "")

\* C2 witness: a result is on screen after a second run, one that started
\* from whatever the first run and the user left on screen.
C2_Witness == result # Null /\ started = 2 /\ error = ""

\* The reply text call c received, when its envelope carries one.
Read(c) == calls[c].pc = "settled" /\ calls[c].body.readable
HasReply(c) == Read(c) /\ EnvelopeText(calls[c].body.json).t = "string"
Reply(c) == EnvelopeText(calls[c].body.json).v

\* The JSON-object-like substring of a reply: from its first "{" to its
\* last "}", when the one comes before the other.
FirstOpen(raw) == CHOOSE i \in 1..Len(raw) : raw[i] = "{" /\ \A k \in 1..(i - 1) : raw[k] # "{"
LastClose(raw) == CHOOSE j \in 1..Len(raw) : raw[j] = "}" /\ \A k \in (j + 1)..Len(raw) : raw[k] # "}"
HasObjectLike(raw) ==
    /\ \E i \in 1..Len(raw) : raw[i] = "{"
    /\ \E j \in 1..Len(raw) : raw[j] = "}"
    /\ FirstOpen(raw) < LastClose(raw)
ObjectLike(raw) == SubSeq(raw, FirstOpen(raw), LastClose(raw))

\* C3: decoding a reply text never throws; it returns the parsed object
\* when the reply has a JSON-object-like substring that parses, and exactly
\* {summary: <the whole reply>, key_points: []} otherwise.
C3_DecodeNeverThrows ==
    \A c \in DOMAIN calls :
        HasReply(c) =>
            /\ calls[c].outcome.kind = "return"
            /\ calls[c].outcome.v =
                 IF HasObjectLike(Reply(c)) /\ JSONParse(ObjectLike(Reply(c))).ok
                 THEN JSONParse(ObjectLike(Reply(c))).v
                 ELSE Obj(<< <<K_summary, Str(Reply(c))>>, <<K_key_points, Arr(<<>>)>> >>)

\* C3 witness: a reply whose object-like substring does not parse was
\* decoded, and the whole reply came back as the summary.
C3_Witness ==
    \E c \in DOMAIN calls :
        /\ HasReply(c)
        /\ HasObjectLike(Reply(c))
        /\ ~JSONParse(ObjectLike(Reply(c))).ok
        /\ calls[c].outcome.kind = "return"
        /\ OwnValue(calls[c].outcome.v, K_summary) = Str(Reply(c))

\* C4, as claimed: every value summariseWithGemini returns on a response of
\* success status has a summary field and a key_points field that is a
\* sequence.
C4_AlwaysWellFormedPair ==
    \A c \in DOMAIN calls :
        (calls[c].pc = "settled" /\ calls[c].outcome.kind = "return") =>
            /\ HasOwn(calls[c].outcome.v, K_summary)
            /\ HasOwn(calls[c].outcome.v, K_key_points)
            /\ OwnValue(calls[c].outcome.v, K_key_points).t = "array"

\* C5, as claimed: an envelope with no text payload decodes as the empty
\* reply, to {summary: "", key_points: []}.
C5_AbsentTextIsEmptyReply ==
    \A c \in DOMAIN calls :
        (Read(c) /\ IsNullish(EnvelopeText(calls[c].body.json))) =>
            calls[c].outcome =
                Return(Obj(<< <<K_summary, Str(<<>>)>>, <<K_key_points, Arr(<<>>)>> >>))

\* The strategy the declared type calls for, in the order of priority.
TypeIs(f, s) == f.type.t = "string" /\ f.type.v = s
TypeBegins(f, p) ==
    /\ f.type.t = "string"
    /\ Len(f.type.v) >= Len(p)
    /\ \A i \in 1..Len(p) : f.type.v[i] = p[i]
Expected(f) ==
    IF TypeIs(f, PdfType) THEN "pdf"
    ELSE IF TypeBegins(f, ImagePrefix) THEN "ocr"
    ELSE "text"

\* C6: for every declared type, the empty and the undefined one included,
\* extractTextFromFile invokes exactly one strategy: PDF extraction for
\* "application/pdf", else OCR for a type beginning with "image/", else the
\* decoding of the bytes as text.
C6_DispatchTotal ==
    \A r \in DOMAIN runs : runs[r].strategies = <<Expected(runs[r].file)>>

\* C6 witness: runs on a file of undefined type and on one whose type only
\* contains "image/" both took the text strategy.
C6_Witness ==
    \E r \in DOMAIN runs :
        /\ runs[r].strategies = <<"text">>
        /\ runs[r].file.type = Undefined \/ IsImageIncludes(runs[r].file)
        /\ Extracted(r)

\* C7, as claimed: the length directive of the prompt is the short range
\* for "short", the long range for "long", and the medium range for
\* "medium", for an omitted length and for every other length.
C7_LengthDirective ==
    \A c \in DOMAIN calls :
        calls[c].requests > 0 =>
            calls[c].prompt.target =
                CASE calls[c].length = "short" -> "~80-120 words"
                  [] calls[c].length = "long" -> "~300-450 words"
                  [] OTHER -> "~150-250 words"

\* C8: with no API credential configured (the variable undefined or empty)
\* every invocation of summariseWithGemini fails with the missing-key
\* error and issues no HTTP request.
C8_MissingKeyNoRequest ==
    (KEY = Undefined \/ KEY = Str(<<>>)) =>
        \A c \in DOMAIN calls :
            /\ calls[c].requests = 0
            /\ calls[c].pc # "called" =>
                 /\ calls[c].pc = "settled"
                 /\ calls[c].outcome = Throw("Missing VITE_GEMINI_API_KEY in .env.local")

\* C8 witness: an invocation was entered with the key set to the empty
\* string, and has failed.
C8_Witness ==
    /\ KEY = Str(<<>>)
    /\ \E c \in DOMAIN calls : calls[c].pc = "settled" /\ calls[c].outcome.kind = "throw"

PassedKeyCheck(c) ==
    calls[c].pc # "called" /\ calls[c].outcome.msg # MissingKeyMessage

\* C9: an invocation that passes the credential check issues exactly one
\* HTTP request; if the response has a status outside 200..299 the
\* invocation fails with an error that carries the status, and is not
\* retried.
C9_OneRequestNoRetry ==
    \A c \in DOMAIN calls :
        PassedKeyCheck(c) =>
            /\ calls[c].requests = 1
            /\ (calls[c].status # 0 /\ ~(calls[c].status \in 200..299)) =>
                 /\ calls[c].pc = "settled"
                 /\ calls[c].outcome =
                      Throw("Gemini error " \o ToString(calls[c].status))

\* C9 witness: an invocation got a 404 and has failed.
C9_Witness ==
    \E c \in DOMAIN calls :
        /\ PassedKeyCheck(c)
        /\ calls[c].status = 404
        /\ calls[c].outcome.kind = "throw"

\* C10: within a run the remote call starts only after the extraction has
\* completed; if the extraction throws, the run ends with an error message
\* and makes no remote call.
C10_ExtractionFirst ==
    \A r \in DOMAIN runs :
        /\ r \in DOMAIN calls => Extracted(r)
        /\ runs[r].extraction.kind = "throw" =>
             /\ r \notin DOMAIN calls
             /\ runs[r].pc = "done"
             /\ runs[r].end.error # ""
             /\ runs[r].end.result = Null

\* C10 witness: a run whose extraction threw a value with no message is
\* over, and its error is on screen.
C10_Witness ==
    \E r \in DOMAIN runs :
        /\ runs[r].extraction.kind = "throw"
        /\ runs[r].pc = "done"
        /\ error = "Something went wrong."

\* The runs that are not over, those of them awaiting their extraction,
\* and the invocations awaiting the network.
InFlight == {r \in DOMAIN runs : runs[r].pc # "done"}
Extracting == {r \in DOMAIN runs : runs[r].pc = "extracting"}
Remote == {c \in DOMAIN calls : calls[c].pc \in {"fetching", "reading"}}

\* C11: at any moment at most one run of handleSummarise is under way, and
\* so at most one extraction and at most one remote call are in flight,
\* whatever the user does (trigger, drop, pick, cancel) in between.
C11_OneRunInFlight ==
    /\ Cardinality(InFlight) <= 1
    /\ Cardinality(Extracting) <= 1
    /\ Cardinality(Remote) <= 1

\* C11 witness: a second run is under way with its remote call, while the
\* user has replaced the file it was started on.
C11_Witness ==
    \E r \in InFlight :
        /\ r = 2
        /\ r \in Remote
        /\ file # runs[r].file
        /\ file # NullFile

\* C12: the text embedded in the prompt is exactly the first MAX
\* (180,000) characters of the input text when the input is longer than
\* MAX, and the whole input text when it is not.
C12_TruncationBoundary ==
    \A c \in DOMAIN calls :
        calls[c].requests > 0 =>
            LET text == Unpack(calls[c].text)
                sent == Unpack(calls[c].prompt.text)
            IN  IF Len(text) > 180000
                THEN /\ Len(sent) = 180000
                     /\ \A i \in 1..180000 : sent[i] = text[i]
                ELSE sent = text

\* C12 witness: a prompt was built from a text one character longer than
\* the bound, and holds 180,000 characters, the last of them the "b" that
\* came before the last character of the text.
C12_Witness ==
    \E c \in DOMAIN calls :
        /\ calls[c].requests > 0
        /\ PackedLen(calls[c].text) = 180001
        /\ PackedLen(calls[c].prompt.text) = 180000
        /\ calls[c].prompt.text[Len(calls[c].prompt.text)] = <<"b", 1>>

\* C13: whenever a result is displayed, a file is selected and the result
\* is the one a finished run produced from the file now selected.
C13_ResultOfSelectedFile ==
    result # Null =>
        /\ file # NullFile
        /\ \E r \in DOMAIN runs :
               /\ runs[r].pc = "done"
               /\ runs[r].end.result = result
               /\ runs[r].file = file

=============================================================================
